---- MODULE Spec2Model ----
(***************************************************************************)
(* fastalign: the CIGAR materializer (CigarOperation::from_str,            *)
(* parse_cigar, align_sequence, align_record) and the Reader / Worker /    *)
(* Writer pipeline of process_fasta, src/src/main.rs.                      *)
(*                                                                         *)
(* Text is a sequence of characters, each written as a one-element string  *)
(* ("3", "M", "="); the character "U+00E9" stands for a two-byte UTF-8     *)
(* letter.  usize is UsizeBits wide; a Vec holds at most IsizeMax bytes.   *)
(***************************************************************************)
EXTENDS Integers, Sequences, FiniteSets, TLC

(***************************************************************************)
(* Bounds of the model.                                                    *)
(***************************************************************************)
UsizeBits == 5
MaxSeqLen == 2
MaxRefLen == 3
MaxStart == 1
MaxOps == 3
MaxRecords == 3
MaxThreads == 2

UsizeMax == 2^UsizeBits - 1
IsizeMax == 2^(UsizeBits - 1) - 1

(***************************************************************************)
(* Result<T>, anyhow errors and panics.  An error is its context chain,    *)
(* outermost message first; a message is its format string, the text       *)
(* argument formatted into it and the numbers formatted into it.           *)
(***************************************************************************)
Msg(text, arg, nums) == [text |-> text, arg |-> arg, nums |-> nums]

Ok(v) == [tag |-> "Ok", val |-> v, err |-> <<>>]

Err(chain) == [tag |-> "Err", val |-> <<>>, err |-> chain]

Panic(why) == [tag |-> "Panic", val |-> <<>>, err |-> <<Msg(why, <<>>, <<>>)>>]

Context(res, msg) == IF res.tag = "Err" THEN Err(<<msg>> \o res.err) ELSE res

(***************************************************************************)
(* Characters.                                                             *)
(***************************************************************************)
Digits == {"0", "1", "2", "3", "4", "5", "6", "7", "8", "9"}

DigitVal(c) ==
    CASE c = "0" -> 0 [] c = "1" -> 1 [] c = "2" -> 2 [] c = "3" -> 3
      [] c = "4" -> 4 [] c = "5" -> 5 [] c = "6" -> 6 [] c = "7" -> 7
      [] c = "8" -> 8 [] c = "9" -> 9

Letters == {"M", "I", "D", "N", "S", "H", "P", "X", "Z", "U+00E9"}

IsAlphabetic(c) == c \in Letters

Utf8Len(c) == IF c = "U+00E9" THEN 2 ELSE 1

(***************************************************************************)
(* str::parse::<usize>: an optional leading "+", then decimal digits,      *)
(* each step checked against the width of usize.                           *)
(***************************************************************************)
RECURSIVE ParseDigits(_, _, _)
ParseDigits(s, i, acc) ==
    IF i > Len(s) THEN Ok(acc)
    ELSE IF s[i] \notin Digits
         THEN Err(<<Msg("invalid digit found in string", <<>>, <<>>)>>)
         ELSE IF acc * 10 > UsizeMax \/ acc * 10 + DigitVal(s[i]) > UsizeMax
              THEN Err(<<Msg("number too large to fit in target type", <<>>, <<>>)>>)
              ELSE ParseDigits(s, i + 1, acc * 10 + DigitVal(s[i]))

ParseUsize(s) ==
    IF Len(s) = 0 THEN Err(<<Msg("cannot parse integer from empty string", <<>>, <<>>)>>)
    ELSE IF s[1] \in {"+", "-"} /\ Len(s) = 1
         THEN Err(<<Msg("invalid digit found in string", <<>>, <<>>)>>)
         ELSE IF s[1] = "+" THEN ParseDigits(s, 2, 0)
              ELSE ParseDigits(s, 1, 0)

(***************************************************************************)
(* CigarOperation and CigarOperation::from_str.                            *)
(***************************************************************************)
CigarOperation(kind, count) == [kind |-> kind, count |-> count]

OperationKind(c) ==
    CASE c = "M" -> "Match"
      [] c = "I" -> "Insertion"
      [] c = "D" -> "Deletion"
      [] c = "N" -> "Skipped"
      [] c = "S" -> "SoftClip"
      [] c = "H" -> "HardClip"
      [] c = "P" -> "Pad"
      [] c = "=" -> "Equal"
      [] c = "X" -> "Diff"
      [] OTHER -> "Unknown"

\* cigar_operation[..cigar_operation.len()-1]: a slice by BYTE index.
CountSlice(cigar_operation) ==
    IF Len(cigar_operation) = 0
    THEN Panic("byte index out of range")
    ELSE IF Utf8Len(cigar_operation[Len(cigar_operation)]) # 1
         THEN Panic("byte index is not a char boundary")
         ELSE Ok(SubSeq(cigar_operation, 1, Len(cigar_operation) - 1))

from_str(cigar_operation) ==
    LET slice == CountSlice(cigar_operation) IN
    IF slice.tag = "Panic" THEN slice
    ELSE LET count == Context(ParseUsize(slice.val),
                 Msg("Failed to parse CIGAR operation count: {}", cigar_operation, <<>>))
             c == cigar_operation[Len(cigar_operation)]
         IN IF count.tag = "Err" THEN count
            ELSE IF OperationKind(c) = "Unknown"
                 THEN Err(<<Msg("Unknown CIGAR operation: {} in CIGAR string {}",
                                cigar_operation, <<>>)>>)
                 ELSE Ok(CigarOperation(OperationKind(c), count.val))

(***************************************************************************)
(* parse_cigar: split_inclusive(char::is_alphabetic), then parse each      *)
(* piece in order; collect() stops at the first piece that fails.          *)
(***************************************************************************)
RECURSIVE FirstAlphabetic(_, _)
FirstAlphabetic(s, i) ==
    IF i > Len(s) THEN Len(s)
    ELSE IF IsAlphabetic(s[i]) THEN i ELSE FirstAlphabetic(s, i + 1)

RECURSIVE split_inclusive(_)
split_inclusive(s) ==
    IF Len(s) = 0 THEN <<>>
    ELSE LET k == FirstAlphabetic(s, 1)
         IN <<SubSeq(s, 1, k)>> \o split_inclusive(SubSeq(s, k + 1, Len(s)))

RECURSIVE CollectOperations(_, _, _)
CollectOperations(pieces, i, acc) ==
    IF i > Len(pieces) THEN Ok(acc)
    ELSE LET op == Context(from_str(pieces[i]),
                     Msg("Failed to parse CIGAR operation: {}", pieces[i], <<>>))
         IN IF op.tag # "Ok" THEN op
            ELSE CollectOperations(pieces, i + 1, Append(acc, op.val))

parse_cigar(cigar_string) == CollectOperations(split_inclusive(cigar_string), 1, <<>>)

(***************************************************************************)
(* Machine arithmetic and Vec growth.  usize addition panics when the      *)
(* build checks overflow and wraps otherwise; a Vec<u8> whose length would *)
(* exceed isize::MAX panics with "capacity overflow".                      *)
(***************************************************************************)
UsizeAdd(a, b, overflow_checks) ==
    IF a + b <= UsizeMax THEN Ok(a + b)
    ELSE IF overflow_checks THEN Panic("attempt to add with overflow")
         ELSE Ok((a + b) % (UsizeMax + 1))

Gaps(n) == [i \in 1..n |-> "-"]

Extend(aligned_seq, bytes) ==
    IF Len(aligned_seq) + Len(bytes) > IsizeMax THEN Panic("capacity overflow")
    ELSE Ok(aligned_seq \o bytes)

\* aligned_seq.extend("-".repeat(n).bytes())
ExtendGaps(aligned_seq, n) ==
    IF n > IsizeMax THEN Panic("capacity overflow") ELSE Extend(aligned_seq, Gaps(n))

(***************************************************************************)
(* align_sequence.  The walk keeps seq_pos, ref_pos and aligned_seq; each  *)
(* arm of the match is one operator from the walk's state to a Result.     *)
(***************************************************************************)
Walk(seq_pos, ref_pos, aligned_seq) ==
    [seq_pos |-> seq_pos, ref_pos |-> ref_pos, aligned_seq |-> aligned_seq]

MatchArm(st, count, sequence, overflow_checks) ==
    LET end_pos == UsizeAdd(st.seq_pos, count, overflow_checks)
        ref_end == UsizeAdd(st.ref_pos, count, overflow_checks)
    IN IF end_pos.tag = "Panic" THEN end_pos
       ELSE IF end_pos.val > Len(sequence)
            THEN Err(<<Msg("CIGAR operation out-of-bounds sequence: seq_pos={}, count={}, sequence length={}",
                           <<>>, <<st.seq_pos, count, Len(sequence)>>)>>)
            ELSE IF st.seq_pos > end_pos.val
                 THEN Panic("slice index starts after it ends")
                 ELSE LET grown == Extend(st.aligned_seq,
                                          SubSeq(sequence, st.seq_pos + 1, end_pos.val))
                      IN IF grown.tag = "Panic" THEN grown
                         ELSE IF ref_end.tag = "Panic" THEN ref_end
                              ELSE Ok(Walk(end_pos.val, ref_end.val, grown.val))

InsertionArm(st, count, overflow_checks) ==
    LET next_pos == UsizeAdd(st.seq_pos, count, overflow_checks)
    IN IF next_pos.tag = "Panic" THEN next_pos
       ELSE Ok(Walk(next_pos.val, st.ref_pos, st.aligned_seq))

DeletionArm(st, count, overflow_checks) ==
    LET grown == ExtendGaps(st.aligned_seq, count)
        ref_end == UsizeAdd(st.ref_pos, count, overflow_checks)
    IN IF grown.tag = "Panic" THEN grown
       ELSE IF ref_end.tag = "Panic" THEN ref_end
            ELSE Ok(Walk(st.seq_pos, ref_end.val, grown.val))

ClipArm(st, count, overflow_checks) ==
    LET next_pos == UsizeAdd(st.seq_pos, count, overflow_checks)
    IN IF next_pos.tag = "Panic" THEN next_pos
       ELSE Ok(Walk(next_pos.val, st.ref_pos, st.aligned_seq))

ApplyOperation(st, op, sequence, overflow_checks) ==
    CASE op.kind \in {"Match", "Equal", "Diff"} ->
            MatchArm(st, op.count, sequence, overflow_checks)
      [] op.kind = "Insertion" -> InsertionArm(st, op.count, overflow_checks)
      [] op.kind \in {"Deletion", "Skipped"} -> DeletionArm(st, op.count, overflow_checks)
      [] op.kind \in {"SoftClip", "HardClip"} -> ClipArm(st, op.count, overflow_checks)
      [] OTHER -> Ok(st)

RECURSIVE WalkOperations(_, _, _, _, _)
WalkOperations(ops, i, st, sequence, overflow_checks) ==
    IF i > Len(ops) THEN Ok(st)
    ELSE LET next == ApplyOperation(st, ops[i], sequence, overflow_checks)
         IN IF next.tag # "Ok" THEN next
            ELSE WalkOperations(ops, i + 1, next.val, sequence, overflow_checks)

\* TrailingGaps without the padding after the alignment.
TrailingGaps_NoPad(st, reference_len) == Ok(st.aligned_seq)

\* Add gaps for any reference bases after the end of the alignment.
TrailingGaps(st, reference_len) ==
    IF st.ref_pos < reference_len
    THEN ExtendGaps(st.aligned_seq, reference_len - st.ref_pos)
    ELSE Ok(st.aligned_seq)

\* aln_start as usize, for an i32 aln_start.
AsUsize(aln_start) == IF aln_start >= 0 THEN aln_start ELSE UsizeMax + 1 + aln_start

align_sequence(sequence, reference_len, cigar, aln_start, overflow_checks) ==
    IF reference_len > IsizeMax THEN Panic("capacity overflow")
    ELSE LET leading == ExtendGaps(<<>>, AsUsize(aln_start))
             ops == parse_cigar(cigar)
         IN IF leading.tag = "Panic" THEN leading
            ELSE IF ops.tag # "Ok" THEN ops
                 ELSE LET walked == WalkOperations(ops.val, 1,
                                        Walk(0, AsUsize(aln_start), leading.val),
                                        sequence, overflow_checks)
                      IN IF walked.tag # "Ok" THEN walked
                         ELSE TrailingGaps(walked.val, reference_len)

(***************************************************************************)
(* align_record.  A record is its name, its sequence and, as `mapping`,    *)
(* the answer of the external aligner.map for that sequence: an error, no  *)
(* hit, or one hit (is_primary, target_start, an optional CIGAR string).   *)
(* `id` is the record's position in the input; the code has no such field, *)
(* it tells apart two records of the same name.                            *)
(***************************************************************************)
InvalidUtf8Names == {"\\xFF"}

from_utf8(name) ==
    IF name \in InvalidUtf8Names
    THEN Err(<<Msg("invalid utf-8 sequence", <<>>, <<>>)>>)
    ELSE Ok(name)

NamedError(text, name) ==
    IF from_utf8(name).tag = "Err" THEN from_utf8(name)
    ELSE Err(<<Msg(text, <<name>>, <<>>)>>)

Hit(is_primary, target_start, has_cigar, cigar_str) ==
    [is_primary |-> is_primary, target_start |-> target_start,
     has_cigar |-> has_cigar, cigar_str |-> cigar_str]

FastaRecord(id, name, seq) == [id |-> id, name |-> name, sequence |-> seq]

align_record(record, mapping, reference_length, overflow_checks) ==
    IF mapping.tag = "Err"
    THEN Context(mapping, Msg("Failed to align sequence", <<>>, <<>>))
    ELSE IF Len(mapping.val) = 0
         THEN NamedError("No alignment found for sequence {}", record.name)
         ELSE LET aln == mapping.val[1] IN
              IF ~aln.is_primary /\ from_utf8(record.name).tag = "Err"
              THEN from_utf8(record.name)
              ELSE IF ~aln.has_cigar
                   THEN NamedError("No CIGAR string found for alignment {}", record.name)
                   ELSE LET aligned_seq ==
                                Context(align_sequence(record.sequence, reference_length,
                                                       aln.cigar_str, aln.target_start,
                                                       overflow_checks),
                                        Msg("Failed to align sequence", <<>>, <<>>))
                        IN IF aligned_seq.tag # "Ok" THEN aligned_seq
                           ELSE Ok(FastaRecord(record.id, record.name, aligned_seq.val))

(***************************************************************************)
(* Inputs of the materializer.                                             *)
(***************************************************************************)
Base(i) == <<"A", "C", "G", "T">>[((i - 1) % 4) + 1]

Bases(n) == [i \in 1..n |-> Base(i)]

Sequences == {Bases(n) : n \in 0..MaxSeqLen}

RECURSIVE FmtUsize(_)
FmtUsize(n) ==
    IF n < 10 THEN <<<<"0", "1", "2", "3", "4", "5", "6", "7", "8", "9">>[n + 1]>>
    ELSE FmtUsize(n \div 10) \o FmtUsize(n % 10)

RECURSIVE Concat(_)
Concat(pieces) == IF Len(pieces) = 0 THEN <<>> ELSE Head(pieces) \o Concat(Tail(pieces))

CigarsOf(pieces) ==
    UNION {{Concat(t) : t \in [1..n -> pieces]} : n \in 0..MaxOps}

AlignPieces ==
    {<<"1", c>> : c \in {"M", "=", "I", "S", "D", "N", "P"}}
        \cup {<<"2", "X">>, FmtUsize(UsizeMax) \o <<"I">>, FmtUsize(UsizeMax) \o <<"M">>}

ParsePieces ==
    {<<"1", "M">>, <<"2", "=">>, <<"5", "Z">>, <<"M">>, <<"7">>, <<"+", "1", "M">>,
     <<"1", "U+00E9">>, FmtUsize(UsizeMax + 1) \o <<"D">>}

(***************************************************************************)
(* Inputs of the pipeline: what input_reader.records() yields, item by     *)
(* item.  An item is a record (with the aligner's answer for it) or a      *)
(* decode error.                                                           *)
(***************************************************************************)
Mapped(hit) == Ok(<<hit>>)

Item(name, seq, mapping) ==
    [kind |-> "record", name |-> name, sequence |-> seq, mapping |-> mapping]

DecodeError == [kind |-> "error", name |-> "", sequence |-> <<>>, mapping |-> Ok(<<>>)]

PipelineItems ==
    { Item("s1", Bases(2), Mapped(Hit(TRUE, 1, TRUE, <<"2", "M">>))),
      Item("s2", Bases(1), Mapped(Hit(FALSE, 0, TRUE, <<"1", "M">>))),
      Item("s3", Bases(2), Ok(<<>>)),
      Item("s4", Bases(2),
           Mapped(Hit(TRUE, 0, TRUE, <<"1", "I">> \o FmtUsize(UsizeMax) \o <<"M">>))),
      DecodeError }

Inputs == UNION {[1..n -> PipelineItems] : n \in 0..MaxRecords}

(***************************************************************************)
(* State.                                                                  *)
(***************************************************************************)
VARIABLES
    sequence, reference_len, cigar, aln_start, result,  \* one call of align_sequence
    record, mapping, \* one call of align_record: the record, the aligner's answer
    num_threads,     \* args.threads
    input,           \* the items of the input file
    reference,       \* reference.len()
    main_pc,         \* process_fasta: "open", "scope", "returned", "panicked"
    ret,             \* what process_fasta returned
    read_pos,        \* items the Reader has taken from input_reader
    record_snd,      \* TRUE while the sender of toAlign is alive
    to_align,        \* channel Reader -> Workers
    worker_pc,       \* per Worker: "recv", "align", "exited"
    worker_record,   \* per Worker: the record it holds
    aligner_idx,     \* per Worker: aligner.idx, "Some" or "None"
    to_write,        \* channel Workers -> Writer
    aligned_recv,    \* TRUE while the receiver of toWrite is alive
    output,          \* records written by output_writer
    times_received,  \* per input position: how often a Worker received it
    received_by,     \* per input position: the Worker that received it last, or 0
    align_results,   \* per input position and build: what align_record returns for it
    reader_result, worker_result, writer_result   \* what each thread's closure returned

alignVars == <<sequence, reference_len, cigar, aln_start, result, record, mapping>>

\* What a run of process_fasta is given; no step changes it.
inputVars == <<num_threads, input, reference, align_results>>

pipeVars ==
    <<inputVars, main_pc, ret, read_pos, record_snd, to_align, worker_pc,
      worker_record, aligner_idx, to_write, aligned_recv, output, times_received,
      received_by, reader_result, worker_result, writer_result>>

vars == <<alignVars, pipeVars>>

NoResult == [tag |-> "None", val |-> <<>>, err |-> <<>>]

NoRecord == FastaRecord(0, "", <<>>)

Workers == 1..num_threads

\* The state process_fasta starts from, for a given input and thread count.
PipelineStart(items, threads) ==
    /\ num_threads = threads
    /\ input = items
    /\ reference = MaxRefLen
    /\ main_pc = "open"
    /\ ret = NoResult
    /\ read_pos = 0
    /\ record_snd = TRUE
    /\ to_align = <<>>
    /\ worker_pc = [w \in 1..threads |-> "recv"]
    /\ worker_record = [w \in 1..threads |-> NoRecord]
    /\ aligner_idx = [w \in 1..threads |-> "Some"]
    /\ to_write = <<>>
    /\ aligned_recv = TRUE
    /\ output = <<>>
    /\ times_received = [i \in 1..Len(items) |-> 0]
    /\ received_by = [i \in 1..Len(items) |-> 0]
    /\ align_results =
          [i \in 1..Len(items) |->
              [overflow_checks \in BOOLEAN |->
                  align_record(FastaRecord(i, items[i].name, items[i].sequence),
                               items[i].mapping, MaxRefLen, overflow_checks)]]
    /\ reader_result = NoResult
    /\ worker_result = [w \in 1..threads |-> NoResult]
    /\ writer_result = NoResult

AlignStart(seq, len, cig, start) ==
    /\ sequence = seq
    /\ reference_len = len
    /\ cigar = cig
    /\ aln_start = start
    /\ result = NoResult
    /\ record = NoRecord
    /\ mapping = Ok(<<>>)

InitAlign ==
    /\ \E seq \in Sequences, len \in 0..MaxRefLen, cig \in CigarsOf(AlignPieces),
          start \in 0..MaxStart : AlignStart(seq, len, cig, start)
    /\ PipelineStart(<<>>, 0)

InitParse ==
    /\ \E cig \in CigarsOf(ParsePieces) : AlignStart(Bases(MaxSeqLen), MaxRefLen, cig, 0)
    /\ PipelineStart(<<>>, 0)

\* args.threads is any usize, 0 included: the command line has no lower limit.
ThreadCounts == 0..MaxThreads

InitPipeline ==
    /\ AlignStart(<<>>, 0, <<>>, 0)
    /\ \E items \in Inputs, threads \in ThreadCounts : PipelineStart(items, threads)

(***************************************************************************)
(* One call of align_sequence, in a build with or without overflow checks. *)
(***************************************************************************)
CallAlignSequence ==
    /\ result = NoResult
    /\ \E overflow_checks \in BOOLEAN :
          result' = align_sequence(sequence, reference_len, cigar, aln_start, overflow_checks)
    /\ UNCHANGED <<sequence, reference_len, cigar, aln_start, record, mapping>>
    /\ UNCHANGED pipeVars

NextAlign == CallAlignSequence

SpecAlign == InitAlign /\ [][NextAlign]_vars

SpecParse == InitParse /\ [][NextAlign]_vars

(***************************************************************************)
(* One call of align_record, for a record and the aligner's answer for it. *)
(***************************************************************************)
RecordNames == {"s1", "\\xFF"}

RecordPieces == {<<"1", "M">>, <<"2", "=">>, <<"1", "I">>, <<"1", "D">>, <<"5", "Z">>}

MapError == Err(<<Msg("minimap2 error", <<>>, <<>>)>>)

Mappings ==
    {MapError, Ok(<<>>)}
        \cup {Mapped(Hit(p, start, FALSE, <<>>)) : p \in BOOLEAN, start \in 0..MaxStart}
        \cup UNION {{Mapped(Hit(p, start, TRUE, cig)) : p \in BOOLEAN, start \in 0..MaxStart}
                       : cig \in CigarsOf(RecordPieces)}

InitRecord ==
    /\ \E name \in RecordNames, seq \in Sequences, map \in Mappings :
          /\ record = FastaRecord(1, name, seq)
          /\ mapping = map
    /\ sequence = <<>> /\ reference_len = 0 /\ cigar = <<>> /\ aln_start = 0
    /\ result = NoResult
    /\ PipelineStart(<<>>, 0)

CallAlignRecord ==
    /\ result = NoResult
    /\ \E overflow_checks \in BOOLEAN :
          result' = align_record(record, mapping, reference, overflow_checks)
    /\ UNCHANGED <<sequence, reference_len, cigar, aln_start, record, mapping>>
    /\ UNCHANGED pipeVars

NextRecord == CallAlignRecord

SpecRecord == InitRecord /\ [][NextRecord]_vars

(***************************************************************************)
(* process_fasta.  Every thread closure of the scope is a process; a step  *)
(* is one channel operation together with the local code that follows it.  *)
(* The Workers hold their clones from the start: the scope body keeps      *)
(* aligned_snd itself until every Worker is spawned and spawns the Writer  *)
(* after dropping it, so the Writer only ever sees the Workers' senders.   *)
(***************************************************************************)
LiveWorkers == {w \in Workers : worker_pc[w] # "exited"}

\* ToAlignReceivers when only the Workers hold receivers of toAlign.
ToAlignReceivers_WorkersOnly == Cardinality(LiveWorkers)

\* record_recv itself is owned by process_fasta and outlives the scope;
\* every live Worker holds one clone of it.
ToAlignReceivers == 1 + Cardinality(LiveWorkers)

\* ToWriteSenders when aligned_snd itself is kept for the whole scope.
ToWriteSenders_KeepsOriginal == 1 + Cardinality(LiveWorkers)

\* aligned_snd is dropped once the Workers are spawned; every live Worker
\* holds one clone of it.
ToWriteSenders == Cardinality(LiveWorkers)

OpenFiles ==
    /\ main_pc = "open"
    /\ \E outcome \in {"ok", "no input", "no output"} :
          IF outcome = "ok"
          THEN main_pc' = "scope" /\ ret' = ret
          ELSE /\ main_pc' = "returned"
               /\ ret' = Err(<<Msg(IF outcome = "no input"
                                   THEN "Failed to open input file"
                                   ELSE "Failed to create output file", <<>>, <<>>)>>)
    /\ UNCHANGED inputVars
    /\ UNCHANGED <<read_pos, record_snd, to_align, worker_pc, worker_record,
                   aligner_idx, to_write, aligned_recv, output, times_received, received_by,
                   reader_result, worker_result, writer_result>>
    /\ UNCHANGED alignVars

ReaderRunning == main_pc = "scope" /\ reader_result = NoResult

ReaderSend ==
    /\ ReaderRunning
    /\ read_pos < Len(input)
    /\ input[read_pos + 1].kind = "record"
    /\ read_pos' = read_pos + 1
    /\ IF ToAlignReceivers > 0
       THEN /\ to_align' = Append(to_align,
                   FastaRecord(read_pos + 1, input[read_pos + 1].name,
                               input[read_pos + 1].sequence))
            /\ UNCHANGED <<record_snd, reader_result>>
       ELSE /\ reader_result' = Err(<<Msg("Failed to send record", <<>>, <<>>)>>)
            /\ record_snd' = FALSE
            /\ UNCHANGED to_align
    /\ UNCHANGED inputVars
    /\ UNCHANGED <<main_pc, ret, worker_pc, worker_record, aligner_idx, to_write,
                   aligned_recv, output, times_received, received_by, worker_result, writer_result>>
    /\ UNCHANGED alignVars

\* ReaderDecodeError with record_snd surviving the early return.
ReaderDecodeError_KeepsSender ==
    /\ main_pc = "scope" /\ reader_result = NoResult
    /\ read_pos < Len(input)
    /\ input[read_pos + 1].kind = "error"
    /\ read_pos' = read_pos + 1
    /\ reader_result' = Err(<<Msg("Failed to read FASTA record", <<>>, <<>>)>>)
    /\ UNCHANGED inputVars
    /\ UNCHANGED <<main_pc, ret, record_snd, to_align, worker_pc, worker_record,
                   aligner_idx, to_write, aligned_recv, output, times_received, received_by,
                   worker_result, writer_result>>
    /\ UNCHANGED alignVars

\* ReaderDecodeError discarding the records still queued in toAlign.
ReaderDecodeError_Discards ==
    /\ main_pc = "scope" /\ reader_result = NoResult
    /\ read_pos < Len(input)
    /\ input[read_pos + 1].kind = "error"
    /\ read_pos' = read_pos + 1
    /\ reader_result' = Err(<<Msg("Failed to read FASTA record", <<>>, <<>>)>>)
    /\ record_snd' = FALSE
    /\ to_align' = <<>>
    /\ UNCHANGED inputVars
    /\ UNCHANGED <<main_pc, ret, worker_pc, worker_record, aligner_idx,
                   to_write, aligned_recv, output, times_received, received_by,
                   worker_result, writer_result>>
    /\ UNCHANGED alignVars

\* record.context(..)? returns from the closure, which drops record_snd with it.
ReaderDecodeError ==
    /\ ReaderRunning
    /\ read_pos < Len(input)
    /\ input[read_pos + 1].kind = "error"
    /\ read_pos' = read_pos + 1
    /\ reader_result' = Err(<<Msg("Failed to read FASTA record", <<>>, <<>>)>>)
    /\ record_snd' = FALSE
    /\ UNCHANGED inputVars
    /\ UNCHANGED <<main_pc, ret, to_align, worker_pc, worker_record, aligner_idx,
                   to_write, aligned_recv, output, times_received, received_by, worker_result,
                   writer_result>>
    /\ UNCHANGED alignVars

ReaderDone ==
    /\ ReaderRunning
    /\ read_pos = Len(input)
    /\ record_snd' = FALSE
    /\ reader_result' = Ok(<<>>)
    /\ UNCHANGED inputVars
    /\ UNCHANGED <<main_pc, ret, read_pos, to_align, worker_pc, worker_record,
                   aligner_idx, to_write, aligned_recv, output, times_received, received_by,
                   worker_result, writer_result>>
    /\ UNCHANGED alignVars

Reader == ReaderSend \/ ReaderDecodeError \/ ReaderDone

\* WorkerRecv leaving the record in toAlign for the next receiver.
WorkerRecv_Peek(w) ==
    /\ main_pc = "scope"
    /\ w \in Workers
    /\ worker_pc[w] = "recv"
    /\ Len(to_align) > 0
    /\ worker_record' = [worker_record EXCEPT ![w] = Head(to_align)]
    /\ times_received' = [times_received EXCEPT ![Head(to_align).id] = @ + 1]
    /\ received_by' = [received_by EXCEPT ![Head(to_align).id] = w]
    /\ worker_pc' = [worker_pc EXCEPT ![w] = "align"]
    /\ UNCHANGED inputVars
    /\ UNCHANGED <<main_pc, ret, read_pos, record_snd, to_align, aligner_idx,
                   to_write, aligned_recv, output, reader_result, worker_result,
                   writer_result>>
    /\ UNCHANGED alignVars

\* record_receiver.recv() returns a record.
WorkerRecv(w) ==
    /\ main_pc = "scope"
    /\ w \in Workers
    /\ worker_pc[w] = "recv"
    /\ Len(to_align) > 0
    /\ worker_record' = [worker_record EXCEPT ![w] = Head(to_align)]
    /\ to_align' = Tail(to_align)
    /\ times_received' = [times_received EXCEPT ![Head(to_align).id] = @ + 1]
    /\ received_by' = [received_by EXCEPT ![Head(to_align).id] = w]
    /\ worker_pc' = [worker_pc EXCEPT ![w] = "align"]
    /\ UNCHANGED inputVars
    /\ UNCHANGED <<main_pc, ret, read_pos, record_snd, aligner_idx, to_write,
                   aligned_recv, output, reader_result, worker_result, writer_result>>
    /\ UNCHANGED alignVars

\* WorkerEndOfStream leaving the loop as soon as toAlign is empty (try_recv).
WorkerEndOfStream_TryRecv(w) ==
    /\ main_pc = "scope"
    /\ w \in Workers
    /\ worker_pc[w] = "recv"
    /\ Len(to_align) = 0
    /\ aligner_idx' = [aligner_idx EXCEPT ![w] = "None"]
    /\ worker_result' = [worker_result EXCEPT ![w] = Ok(<<>>)]
    /\ worker_pc' = [worker_pc EXCEPT ![w] = "exited"]
    /\ UNCHANGED inputVars
    /\ UNCHANGED <<main_pc, ret, read_pos, record_snd, to_align, worker_record,
                   to_write, aligned_recv, output, times_received, received_by, reader_result,
                   writer_result>>
    /\ UNCHANGED alignVars

\* WorkerEndOfStream with a failure broadcast: a Worker also leaves its loop
\* once another Worker has failed.
WorkerEndOfStream_FailFast(w) ==
    /\ main_pc = "scope"
    /\ w \in Workers
    /\ worker_pc[w] = "recv"
    /\ \/ Len(to_align) = 0 /\ ~record_snd
       \/ \E v \in Workers : worker_result[v].tag = "Err"
    /\ aligner_idx' = [aligner_idx EXCEPT ![w] = "None"]
    /\ worker_result' = [worker_result EXCEPT ![w] = Ok(<<>>)]
    /\ worker_pc' = [worker_pc EXCEPT ![w] = "exited"]
    /\ UNCHANGED inputVars
    /\ UNCHANGED <<main_pc, ret, read_pos, record_snd, to_align, worker_record,
                   to_write, aligned_recv, output, times_received, received_by, reader_result,
                   writer_result>>
    /\ UNCHANGED alignVars

\* record_receiver.recv() returns Err: toAlign is empty and its sender is gone.
WorkerEndOfStream(w) ==
    /\ main_pc = "scope"
    /\ w \in Workers
    /\ worker_pc[w] = "recv"
    /\ Len(to_align) = 0
    /\ ~record_snd
    /\ aligner_idx' = [aligner_idx EXCEPT ![w] = "None"]
    /\ worker_result' = [worker_result EXCEPT ![w] = Ok(<<>>)]
    /\ worker_pc' = [worker_pc EXCEPT ![w] = "exited"]
    /\ UNCHANGED inputVars
    /\ UNCHANGED <<main_pc, ret, read_pos, record_snd, to_align, worker_record,
                   to_write, aligned_recv, output, times_received, received_by, reader_result,
                   writer_result>>
    /\ UNCHANGED alignVars

\* align_record(..).context(..)?  then  result_sender.send(..).context(..)?
\* align_record is a function of the record and of the aligner's answer for
\* it; its value is held in align_results from the start.
WorkerAlign(w) ==
    /\ main_pc = "scope"
    /\ w \in Workers
    /\ worker_pc[w] = "align"
    /\ \E overflow_checks \in BOOLEAN :
          LET aligned_record ==
                  Context(align_results[worker_record[w].id][overflow_checks],
                          Msg("Failed to align record", <<>>, <<>>))
          IN IF aligned_record.tag = "Ok" /\ aligned_recv
             THEN /\ to_write' = Append(to_write, aligned_record.val)
                  /\ worker_pc' = [worker_pc EXCEPT ![w] = "recv"]
                  /\ UNCHANGED worker_result
             ELSE /\ worker_result' =
                        [worker_result EXCEPT ![w] =
                            IF aligned_record.tag = "Ok"
                            THEN Err(<<Msg("Failed to send aligned record", <<>>, <<>>)>>)
                            ELSE aligned_record]
                  /\ worker_pc' = [worker_pc EXCEPT ![w] = "exited"]
                  /\ UNCHANGED to_write
    /\ worker_record' = [worker_record EXCEPT ![w] = NoRecord]
    /\ UNCHANGED inputVars
    /\ UNCHANGED <<main_pc, ret, read_pos, record_snd, to_align, aligner_idx,
                   aligned_recv, output, times_received, received_by, reader_result, writer_result>>
    /\ UNCHANGED alignVars

Worker(w) == WorkerRecv(w) \/ WorkerEndOfStream(w) \/ WorkerAlign(w)

WriterRunning == main_pc = "scope" /\ writer_result = NoResult

\* WriterWrite taking the newest record of toWrite instead of the oldest.
WriterWrite_Newest ==
    /\ main_pc = "scope" /\ writer_result = NoResult
    /\ Len(to_write) > 0
    /\ to_write' = SubSeq(to_write, 1, Len(to_write) - 1)
    /\ output' = Append(output, to_write[Len(to_write)])
    /\ UNCHANGED <<writer_result, aligned_recv>>
    /\ UNCHANGED inputVars
    /\ UNCHANGED <<main_pc, ret, read_pos, record_snd, to_align, worker_pc,
                   worker_record, aligner_idx, times_received, received_by,
                   reader_result, worker_result>>
    /\ UNCHANGED alignVars

\* aligned_recv.recv() returns a record; write_record succeeds or fails.
WriterWrite ==
    /\ WriterRunning
    /\ Len(to_write) > 0
    /\ to_write' = Tail(to_write)
    /\ \E written \in BOOLEAN :
          IF written
          THEN /\ output' = Append(output, Head(to_write))
               /\ UNCHANGED <<writer_result, aligned_recv>>
          ELSE /\ writer_result' = Err(<<Msg("Failed to write aligned record", <<>>, <<>>)>>)
               /\ aligned_recv' = FALSE
               /\ UNCHANGED output
    /\ UNCHANGED inputVars
    /\ UNCHANGED <<main_pc, ret, read_pos, record_snd, to_align, worker_pc,
                   worker_record, aligner_idx, times_received, received_by, reader_result,
                   worker_result>>
    /\ UNCHANGED alignVars

\* aligned_recv.recv() returns Err: toWrite is empty and every sender is gone.
WriterEndOfStream ==
    /\ WriterRunning
    /\ Len(to_write) = 0
    /\ ToWriteSenders = 0
    /\ writer_result' = Ok(<<>>)
    /\ aligned_recv' = FALSE
    /\ UNCHANGED inputVars
    /\ UNCHANGED <<main_pc, ret, read_pos, record_snd, to_align, worker_pc,
                   worker_record, aligner_idx, to_write, output, times_received, received_by,
                   reader_result, worker_result>>
    /\ UNCHANGED alignVars

Writer == WriterWrite \/ WriterEndOfStream

AllJoined ==
    /\ reader_result # NoResult
    /\ writer_result # NoResult
    /\ \A w \in Workers : worker_result[w] # NoResult

\* The scope joins every thread and drops what the closures returned; its
\* body's own value is Ok(()).  A thread that panicked makes the scope panic.
ScopeJoin ==
    /\ main_pc = "scope"
    /\ AllJoined
    /\ IF \E w \in Workers : worker_result[w].tag = "Panic"
       THEN main_pc' = "panicked" /\ ret' = ret
       ELSE main_pc' = "returned" /\ ret' = Ok(<<>>)
    /\ UNCHANGED inputVars
    /\ UNCHANGED <<read_pos, record_snd, to_align, worker_pc, worker_record,
                   aligner_idx, to_write, aligned_recv, output, times_received, received_by,
                   reader_result, worker_result, writer_result>>
    /\ UNCHANGED alignVars

NextPipeline ==
    \/ OpenFiles
    \/ ReaderSend
    \/ ReaderDecodeError
    \/ ReaderDone
    \/ \E w \in 1..MaxThreads : WorkerRecv(w)
    \/ \E w \in 1..MaxThreads : WorkerEndOfStream(w)
    \/ \E w \in 1..MaxThreads : WorkerAlign(w)
    \/ WriterWrite
    \/ WriterEndOfStream
    \/ ScopeJoin

SpecPipeline == InitPipeline /\ [][NextPipeline]_vars

\* Every thread is an OS thread that keeps being scheduled: while some thread
\* can take a step, a step is eventually taken.
Fairness == WF_vars(NextPipeline)

SpecPipelineFair == SpecPipeline /\ Fairness

(***************************************************************************)
(* The CIGAR grammar, read independently of parse_cigar: a token is a run  *)
(* of decimal digits closed by the first character that is not a digit;    *)
(* digits left at the end are a dangling trailer.                          *)
(***************************************************************************)
OpChars == {"M", "I", "D", "N", "S", "H", "P", "=", "X"}

RefChars == {"M", "=", "X", "D", "N"}

QueryChars == {"M", "=", "X", "I", "S", "H"}

CopyChars == {"M", "=", "X"}

RECURSIVE FirstNonDigit(_, _)
FirstNonDigit(s, i) ==
    IF i > Len(s) THEN Len(s)
    ELSE IF s[i] \notin Digits THEN i ELSE FirstNonDigit(s, i + 1)

RECURSIVE GrammarTokens(_)
GrammarTokens(s) ==
    IF Len(s) = 0 THEN <<>>
    ELSE LET k == FirstNonDigit(s, 1)
         IN <<SubSeq(s, 1, k)>> \o GrammarTokens(SubSeq(s, k + 1, Len(s)))

RECURSIVE DecimalValue(_)
DecimalValue(ds) ==
    IF Len(ds) = 0 THEN 0
    ELSE 10 * DecimalValue(SubSeq(ds, 1, Len(ds) - 1)) + DigitVal(ds[Len(ds)])

TokenOp(t) == t[Len(t)]

TokenCount(t) == DecimalValue(SubSeq(t, 1, Len(t) - 1))

WellFormedToken(t) == Len(t) >= 2 /\ TokenOp(t) \in OpChars

\* The counts of the first `upto` tokens whose operation is in `chars`, summed.
RECURSIVE SumCounts(_, _, _)
SumCounts(toks, upto, chars) ==
    IF upto = 0 THEN 0
    ELSE SumCounts(toks, upto - 1, chars)
         + (IF TokenOp(toks[upto]) \in chars THEN TokenCount(toks[upto]) ELSE 0)

CigarTokens == GrammarTokens(cigar)

WellFormedCigar == \A i \in 1..Len(CigarTokens) : WellFormedToken(CigarTokens[i])

RefConsumed == SumCounts(CigarTokens, Len(CigarTokens), RefChars)

FitsReference == aln_start + RefConsumed <= reference_len

RefStart(i) == aln_start + SumCounts(CigarTokens, i - 1, RefChars)

QueryStart(i) == SumCounts(CigarTokens, i - 1, QueryChars)

\* The M, = and X tokens that cover reference position r.
Covering(r) ==
    {i \in 1..Len(CigarTokens) :
        /\ TokenOp(CigarTokens[i]) \in CopyChars
        /\ RefStart(i) <= r
        /\ r < RefStart(i) + TokenCount(CigarTokens[i])}

\* The bytes the CIGAR allows at reference position r: the gap where no M, =
\* or X token covers r, else the sequence byte at the aligned query position
\* (none when that position lies beyond the sequence).
ExpectedAt(r) ==
    IF Covering(r) = {} THEN {"-"}
    ELSE {sequence[q + 1] :
            q \in {QueryStart(i) + (r - RefStart(i)) : i \in Covering(r)}
                    \cap (0..(Len(sequence) - 1))}

Called == result # NoResult

(***************************************************************************)
(* C1: every successful call of align_sequence returns an output whose     *)
(* length equals reference_len.                                            *)
(***************************************************************************)
C1_OutputLengthIsReferenceLen ==
    result.tag = "Ok" => Len(result.val) = reference_len

(***************************************************************************)
(* C2: on a successful call whose alignment fits the reference, every      *)
(* reference position holds the sequence byte an M, = or X operation       *)
(* aligns to it, and '-' where no such operation covers it.                *)
(***************************************************************************)
C2_OutputPlacesBases ==
    (result.tag = "Ok" /\ WellFormedCigar /\ FitsReference) =>
        /\ Len(result.val) = reference_len
        /\ \A r \in 0..(reference_len - 1) : result.val[r + 1] \in ExpectedAt(r)

(***************************************************************************)
(* C6: when an M, = or X operation of a parseable CIGAR claims bases       *)
(* beyond the end of the sequence, align_sequence returns the              *)
(* out-of-bounds error: no panic, no output.                               *)
(***************************************************************************)
ClaimsBeyondSequence ==
    \E i \in 1..Len(CigarTokens) :
        /\ TokenOp(CigarTokens[i]) \in CopyChars
        /\ QueryStart(i) + TokenCount(CigarTokens[i]) > Len(sequence)

IsOutOfBoundsError(res) ==
    /\ res.tag = "Err"
    /\ res.err[Len(res.err)].text =
         "CIGAR operation out-of-bounds sequence: seq_pos={}, count={}, sequence length={}"

C6_OutOfBoundsIsError ==
    (Called /\ parse_cigar(cigar).tag = "Ok" /\ WellFormedCigar /\ ClaimsBeyondSequence)
        => IsOutOfBoundsError(result)

(***************************************************************************)
(* C7: a CIGAR with a token whose operation character is unrecognized,     *)
(* whose count is missing, or with a dangling trailer makes align_sequence *)
(* fail with a parse error that names the offending token.                 *)
(***************************************************************************)
BadTokens == {i \in 1..Len(CigarTokens) : ~WellFormedToken(CigarTokens[i])}

\* The tokens a parse error may name: the bad ones, and those whose count
\* does not fit usize.
OffendingTokens ==
    BadTokens \cup {i \in 1..Len(CigarTokens) : TokenCount(CigarTokens[i]) > UsizeMax}

Contains(text, t) ==
    \E k \in 0..(Len(text) - Len(t)) : SubSeq(text, k + 1, k + Len(t)) = t

NamesBadToken(res) ==
    \E m \in 1..Len(res.err), i \in OffendingTokens :
        Contains(res.err[m].arg, CigarTokens[i])

C7_BadTokenIsParseError ==
    (Called /\ BadTokens # {}) => (result.tag = "Err" /\ NamesBadToken(result))

(***************************************************************************)
(* C8: a successful call whose aln_start plus the counts of its M, =, X,   *)
(* D and N operations does not exceed reference_len returns an output of   *)
(* length exactly reference_len.                                           *)
(***************************************************************************)
C8_LengthInvariant ==
    (result.tag = "Ok" /\ WellFormedCigar /\ FitsReference) =>
        Len(result.val) = reference_len

C8_Witness ==
    /\ result.tag = "Ok" /\ WellFormedCigar
    /\ aln_start > 0
    /\ SumCounts(CigarTokens, Len(CigarTokens), {"M", "X"}) > 0
    /\ SumCounts(CigarTokens, Len(CigarTokens), {"I", "S"}) > 0
    /\ aln_start + RefConsumed < reference_len

(***************************************************************************)
(* C3: with T >= 1 Workers, a run in which no stage fails ends with        *)
(* exactly one written record per input record.                            *)
(***************************************************************************)
StageResults ==
    {reader_result, writer_result} \cup {worker_result[w] : w \in Workers}

NoStageFailed == \A r \in StageResults : r.tag = "Ok"

SomeStageFailed == \E r \in StageResults : r.tag = "Err"

InputRecords == {i \in 1..Len(input) : input[i].kind = "record"}

C3_AllRecordsWritten ==
    (main_pc = "returned" /\ num_threads >= 1 /\ NoStageFailed) =>
        /\ Len(output) = Cardinality(InputRecords)
        /\ \A i \in InputRecords : \E k \in 1..Len(output) : output[k].id = i

C3_Witness ==
    /\ main_pc = "returned" /\ NoStageFailed
    /\ num_threads >= 2
    /\ Cardinality(InputRecords) >= 2
    /\ Len(output) >= 2 /\ output[1].id > output[2].id

(***************************************************************************)
(* C4: a run in which the Reader, a Worker or the Writer ended with an     *)
(* error makes process_fasta return an error.                              *)
(***************************************************************************)
C4_StageFailureIsReturned ==
    (main_pc = "returned" /\ SomeStageFailed) => ret.tag = "Err"

(***************************************************************************)
(* C5: whatever stages fail, the Reader, every Worker and the Writer       *)
(* eventually terminate and process_fasta leaves the scope: it returns,    *)
(* or re-raises the panic of a Worker that panicked.                       *)
(***************************************************************************)
WorkerPanicked == \E w \in Workers : worker_result[w].tag = "Panic"

Terminated ==
    \/ main_pc = "returned" /\ ret.tag = "Err"
    \/ main_pc = "returned" /\ AllJoined /\ ~WorkerPanicked
    \/ main_pc = "panicked" /\ AllJoined /\ WorkerPanicked

C5_EveryStageTerminates == <>Terminated

C5_Witness ==
    /\ main_pc = "returned" /\ AllJoined
    /\ num_threads >= 2
    /\ reader_result.tag = "Err"
    /\ writer_result.tag = "Err"
    /\ \E w \in Workers : worker_result[w].tag = "Err"
    /\ \E w \in Workers : worker_result[w].tag = "Ok"

(***************************************************************************)
(* C9: no input record is received by two Workers or written twice, and    *)
(* every written record carries the name of the input record it was        *)
(* produced from.                                                          *)
(***************************************************************************)
InFlight(i) ==
    Cardinality({k \in 1..Len(to_align) : to_align[k].id = i})
    + Cardinality({w \in Workers : worker_record[w].id = i})
    + Cardinality({k \in 1..Len(to_write) : to_write[k].id = i})
    + Cardinality({k \in 1..Len(output) : output[k].id = i})

C9_NoRecordTwice ==
    /\ \A i \in 1..Len(input) : times_received[i] <= 1 /\ InFlight(i) <= 1
    /\ \A k \in 1..Len(output) :
          /\ output[k].id \in InputRecords
          /\ output[k].name = input[output[k].id].name

C9_Witness ==
    /\ num_threads >= 2
    /\ Len(output) >= 2
    /\ output[1].name # output[2].name
    /\ \A i \in 1..Len(input) : times_received[i] = 1

(***************************************************************************)
(* C10: a Worker that has terminated, normally or with an error, has set   *)
(* aligner.idx to None before terminating.                                 *)
(***************************************************************************)
C10_IndexReleasedOnExit ==
    \A w \in Workers : worker_pc[w] = "exited" => aligner_idx[w] = "None"

(***************************************************************************)
(* The error value a Worker ends with when align_record fails for the      *)
(* record it holds.                                                        *)
(***************************************************************************)
WorkerContext(res) == Context(res, Msg("Failed to align record", <<>>, <<>>))

\* Some message of the error's chain has the name formatted into it.
NamesRecord(res, name) ==
    \E m \in 1..Len(res.err) : Contains(res.err[m].arg, <<name>>)

\* The aligner answered (no hit, or a hit) and align_record failed.
PerRecordError == result.tag = "Err" /\ mapping.tag = "Ok"

(***************************************************************************)
(* C11: every per-record error of a Worker (no hit, hit without CIGAR      *)
(* string, CIGAR parse error, out-of-bounds consumption) is an error value *)
(* whose message contains the name of the record.                          *)
(***************************************************************************)
C11_ErrorNamesRecord ==
    PerRecordError => NamesRecord(WorkerContext(result), record.name)

(***************************************************************************)
(* Runs in which exactly one Worker failed and nothing else did.           *)
(***************************************************************************)
FailedWorkers == {w \in Workers : worker_result[w].tag = "Err"}

SoleWorkerFailure ==
    main_pc = "scope" /\ num_threads >= 2 /\ Cardinality(FailedWorkers) = 1

NothingElseFailed ==
    /\ Cardinality(FailedWorkers) = 1
    /\ reader_result.tag = "Ok"
    /\ writer_result.tag = "Ok"
    /\ \A w \in Workers \ FailedWorkers : worker_result[w].tag = "Ok"

AlignsWithoutError(i) == \A b \in BOOLEAN : align_results[i][b].tag = "Ok"

Written(i) == \E k \in 1..Len(output) : output[k].id = i

RemainingProcessed ==
    /\ read_pos = Len(input)
    /\ Len(to_align) = 0
    /\ \A i \in InputRecords :
          /\ times_received[i] = 1
          /\ AlignsWithoutError(i) => Written(i)

(***************************************************************************)
(* C12: with T >= 2, once one Worker has failed on a record the run still  *)
(* comes to its end, and when nothing else failed the Reader has sent      *)
(* every input record, every record has been received by a Worker, and     *)
(* every record that aligns without error has been written.                *)
(***************************************************************************)
C12_SiblingsContinue ==
    SoleWorkerFailure ~> (main_pc # "scope" /\ (NothingElseFailed => RemainingProcessed))

C12_Witness ==
    /\ main_pc = "returned" /\ num_threads >= 2
    /\ NothingElseFailed /\ RemainingProcessed
    /\ \E i, j \in InputRecords :
          i < j /\ ~AlignsWithoutError(i) /\ AlignsWithoutError(j) /\ Written(j)

(***************************************************************************)
(* Order of the output.                                                    *)
(***************************************************************************)
SameWorker(i, j) == received_by[i] # 0 /\ received_by[i] = received_by[j]

InInputOrder(k, l) == output[k].id < output[l].id

PerWorkerOrder ==
    \A k, l \in 1..Len(output) :
        (k < l /\ SameWorker(output[k].id, output[l].id)) => InInputOrder(k, l)

SingleWorkerOrder ==
    num_threads = 1 => \A k, l \in 1..Len(output) : k < l => InInputOrder(k, l)

\* A step that writes appends the oldest record of toWrite to the output.
WritesInArrivalOrder ==
    Len(output') > Len(output) =>
        /\ Len(to_write) > 0
        /\ output' = Append(output, Head(to_write))
        /\ to_write' = Tail(to_write)

(***************************************************************************)
(* C13: the Writer writes records in the order in which they arrive on     *)
(* toWrite; two records aligned by the same Worker are written in their    *)
(* input order, so with T = 1 the output is in input order.  With T >= 2   *)
(* a run exists that writes two records in the reverse of their input      *)
(* order (C13_Witness).                                                    *)
(***************************************************************************)
C13_OrderPerWorker ==
    [](PerWorkerOrder /\ SingleWorkerOrder) /\ [][WritesInArrivalOrder]_vars

C13_Witness ==
    /\ num_threads >= 2
    /\ Len(output) = 3
    /\ \E k, l \in 1..Len(output) : k < l /\ ~InInputOrder(k, l)
    /\ \E k, l \in 1..Len(output) :
          k < l /\ SameWorker(output[k].id, output[l].id) /\ InInputOrder(k, l)

(***************************************************************************)
(* The same answer of the aligner with the hit's is_primary flag inverted. *)
(***************************************************************************)
HasHitWithCigar == mapping.tag = "Ok" /\ Len(mapping.val) > 0 /\ mapping.val[1].has_cigar

FlipPrimary(map) ==
    IF map.tag = "Ok" /\ Len(map.val) > 0
    THEN Mapped([map.val[1] EXCEPT !.is_primary = ~@])
    ELSE map

(***************************************************************************)
(* C14: for every record and every hit that carries a CIGAR string,        *)
(* align_record returns the same gapped record or the same error whether   *)
(* the hit is primary or not.                                              *)
(***************************************************************************)
C14_PrimaryFlagIrrelevant ==
    (Called /\ HasHitWithCigar) =>
        \E b \in BOOLEAN :
            /\ result = align_record(record, mapping, reference, b)
            /\ result = align_record(record, FlipPrimary(mapping), reference, b)

(***************************************************************************)
(* The operations the grammar reads from a CIGAR, token by token.          *)
(***************************************************************************)
CountsFitUsize == \A i \in 1..Len(CigarTokens) : TokenCount(CigarTokens[i]) <= UsizeMax

TokenOperations ==
    [i \in 1..Len(CigarTokens) |->
        CigarOperation(OperationKind(TokenOp(CigarTokens[i])), TokenCount(CigarTokens[i]))]

EqualAsMatch(cig) == [i \in 1..Len(cig) |-> IF cig[i] = "=" THEN "M" ELSE cig[i]]

(***************************************************************************)
(* C15: for a CIGAR made of tokens <len><opchar>, opchar one of M, I, D,   *)
(* N, S, H, P, =, X, parse_cigar returns one operation per token, in       *)
(* order, with the token's kind and length, and align_sequence treats an   *)
(* '=' token as an M token of the same length, wherever the token stands.  *)
(***************************************************************************)
C15_ParsesEveryToken ==
    (Called /\ WellFormedCigar /\ CountsFitUsize) =>
        /\ parse_cigar(cigar) = Ok(TokenOperations)
        /\ \E b \in BOOLEAN :
              /\ result = align_sequence(sequence, reference_len, cigar, aln_start, b)
              /\ result = align_sequence(sequence, reference_len, EqualAsMatch(cigar),
                                         aln_start, b)

(***************************************************************************)
(* A call with its insertions taken out: the CIGAR without its I tokens,   *)
(* the sequence without the bytes those tokens cover.                      *)
(***************************************************************************)
RECURSIVE WithoutInsertions(_)
WithoutInsertions(toks) ==
    IF Len(toks) = 0 THEN <<>>
    ELSE (IF TokenOp(Head(toks)) = "I" THEN <<>> ELSE Head(toks))
         \o WithoutInsertions(Tail(toks))

InsertedPositions ==
    {q \in 0..(Len(sequence) - 1) :
        \E i \in 1..Len(CigarTokens) :
            /\ TokenOp(CigarTokens[i]) = "I"
            /\ QueryStart(i) <= q
            /\ q < QueryStart(i) + TokenCount(CigarTokens[i])}

RECURSIVE DropPositions(_, _, _)
DropPositions(seq, q, dropped) ==
    IF q >= Len(seq) THEN <<>>
    ELSE (IF q \in dropped THEN <<>> ELSE <<seq[q + 1]>>)
         \o DropPositions(seq, q + 1, dropped)

HasInsertion == \E i \in 1..Len(CigarTokens) : TokenOp(CigarTokens[i]) = "I"

(***************************************************************************)
(* C16: a successful call of align_sequence returns what align_sequence    *)
(* returns for the same reference_len and aln_start when every Insertion   *)
(* is removed from the CIGAR and the bytes the insertions cover are        *)
(* removed from the sequence.                                              *)
(***************************************************************************)
C16_InsertionsDropped ==
    (result.tag = "Ok" /\ WellFormedCigar) =>
        \E b \in BOOLEAN :
            /\ result = align_sequence(sequence, reference_len, cigar, aln_start, b)
            /\ result = align_sequence(DropPositions(sequence, 0, InsertedPositions),
                                       reference_len, WithoutInsertions(CigarTokens),
                                       aln_start, b)

(***************************************************************************)
(* The Reader has stopped: its input is exhausted or it met a decode       *)
(* error.                                                                  *)
(***************************************************************************)
ReaderStopped == main_pc = "scope" /\ reader_result # NoResult

SentRecords == {i \in InputRecords : i <= read_pos}

\* Nothing downstream of the Reader fails: every record sent aligns without
\* error and no write fails.
DownstreamSound ==
    /\ num_threads >= 1
    /\ \A i \in SentRecords : AlignsWithoutError(i)
    /\ writer_result.tag = "Ok"

Drained ==
    /\ Len(to_align) = 0
    /\ \A i \in SentRecords : Written(i)
    /\ \A w \in Workers : worker_result[w].tag = "Ok" /\ aligner_idx[w] = "None"

(***************************************************************************)
(* C17: when the Reader stops, at the end of the input or on its first     *)
(* decode error, toAlign is closed; the run then comes to its end, and     *)
(* when nothing downstream fails every record sent before the Reader       *)
(* stopped has been aligned and written and every Worker has left its loop *)
(* normally.                                                               *)
(***************************************************************************)
C17_ReaderClosesToAlign ==
    /\ [](reader_result # NoResult => ~record_snd)
    /\ ReaderStopped ~> (main_pc # "scope" /\ (DownstreamSound => Drained))

C17_Witness ==
    /\ main_pc = "returned"
    /\ reader_result.tag = "Err"
    /\ input[read_pos].kind = "error"
    /\ Cardinality(SentRecords) >= 2
    /\ DownstreamSound /\ Drained

(***************************************************************************)
(* C18: for a CIGAR whose counts each fit usize, no addition seq_pos +     *)
(* count or ref_pos + count of align_sequence exceeds usize::MAX (a build  *)
(* that checks overflow never stops on one), and the call ends with an     *)
(* output or an error value, never with a panic.                           *)
(***************************************************************************)
C18_NoOverflow ==
    (Called /\ WellFormedCigar /\ CountsFitUsize) =>
        /\ align_sequence(sequence, reference_len, cigar, aln_start, TRUE)
              # Panic("attempt to add with overflow")
        /\ result.tag # "Panic"

(***************************************************************************)
(* Where the Reader stops: at its first decode error, else at the end of   *)
(* the input.                                                              *)
(***************************************************************************)
DecodeErrors == {i \in 1..Len(input) : input[i].kind = "error"}

ReaderEnd ==
    IF DecodeErrors = {} THEN Len(input)
    ELSE CHOOSE i \in DecodeErrors : \A j \in DecodeErrors : i <= j

IsSendFailure(res) ==
    res.tag = "Err" /\ res.err[1].text = "Failed to send record"

Queued(i) == \E k \in 1..Len(to_align) : to_align[k].id = i

EveryWorkerFailed ==
    /\ main_pc = "scope" /\ num_threads >= 1
    /\ \A w \in Workers : worker_result[w].tag = "Err"

(***************************************************************************)
(* C19: the Reader's send on toAlign never fails, because process_fasta    *)
(* keeps record_recv for the whole scope: once every Worker has ended with *)
(* an error the Reader still reads and enqueues every remaining record     *)
(* before it terminates, and a record no Worker received stays in toAlign. *)
(***************************************************************************)
C19_ReaderSendNeverFails ==
    /\ [](~IsSendFailure(reader_result))
    /\ [](\A i \in SentRecords : times_received[i] = 0 => Queued(i))
    /\ EveryWorkerFailed ~>
          (reader_result # NoResult /\ read_pos = ReaderEnd
             /\ \A i \in InputRecords : i < ReaderEnd => i \in SentRecords)

C19_Witness ==
    /\ main_pc = "returned" /\ num_threads >= 1
    /\ \A w \in Workers : worker_result[w].tag = "Err"
    /\ reader_result.tag = "Ok"
    /\ Len(to_align) >= 2

(***************************************************************************)
(* A run without Workers on an input of records only.                      *)
(***************************************************************************)
NoWorkers == num_threads = 0

NoWorkersStarted == NoWorkers /\ main_pc = "scope" /\ DecodeErrors = {}

NoWorkersDone ==
    /\ main_pc = "returned" /\ ret = Ok(<<>>)
    /\ reader_result = Ok(<<>>) /\ writer_result = Ok(<<>>)
    /\ Len(output) = 0
    /\ Len(to_align) = Len(input)

(***************************************************************************)
(* C20: with a thread count of 0 no Worker exists; the Writer finds        *)
(* toWrite closed and empty from the start, nothing is ever written, and   *)
(* on an input of N records the run terminates with all N records left in  *)
(* toAlign and process_fasta returns Ok.                                   *)
(***************************************************************************)
C20_ZeroThreads ==
    /\ [](NoWorkers => Len(output) = 0 /\ Len(to_write) = 0 /\ ToWriteSenders = 0)
    /\ NoWorkersStarted ~> NoWorkersDone

C20_Witness ==
    /\ NoWorkers /\ DecodeErrors = {}
    /\ Len(input) = MaxRecords
    /\ NoWorkersDone

====
